---- MODULE Spec2Model ----
(***************************************************************************)
(* FluentDrama-Japanese: the server's usage metering (storage + routes,    *)
(* src/unnamed/part_005) and the drama scene's turn loop                   *)
(* (src/client/src/pages/Auth.tsx, DramaScene).                            *)
(*                                                                         *)
(* ServerSpec runs the Express handlers.  A handler is cut at its awaits:  *)
(* each action is the code between two awaits, so handlers of concurrent   *)
(* requests interleave exactly where Node lets them.  AccountSpec adds the *)
(* saved-character and subscription handlers.  ResolveSpec and VoiceSpec   *)
(* each run one call of a pure function (the scene's scenario resolution,  *)
(* the voice selection) on every input of a bounded set.                   *)
(* SceneSpec runs the scene's handlers; HandsFreeSpec adds the hands-free  *)
(* toggle and its timer; SceneLiveSpec adds the fairness of the browser    *)
(* (a pending request settles, a started handler finishes).                *)
(***************************************************************************)
EXTENDS Integers, Sequences, FiniteSets, TLC

Null == "null"

(***************************************************************************)
(* Bounds of the model.                                                    *)
(***************************************************************************)
MaxRequests == 3
MaxDay == 30

(***************************************************************************)
(* Program constants.                                                      *)
(***************************************************************************)
ResetDays == 30
AdminLimit == 999999

Tiers == {"free", "starter", "pro", "premium"}

\* const limits of checkUsageLimit
limits == [free |-> 30, starter |-> 300, pro |-> 1000, premium |-> 5000]

\* const imageLimits of checkImageUsageLimit
imageLimits == [free |-> 1, starter |-> 15, pro |-> 25, premium |-> 60]

UserIds == {"u1"}

\* req.user.id of a signed-in session: a user of the table, or an id whose row
\* is gone
SessionIds == UserIds \cup {"u0"}

Slots == 1..2

MeteredEndpoints == {"generate-image", "generate-dialogue", "tts", "conversation-response"}

\* the routes whose handler starts with if (!req.isAuthenticated())
ProtectedEndpoints ==
  MeteredEndpoints \cup
    {"check-usage", "increment-usage", "subscribe", "cancel-subscription",
     "generate-background-prompt", "translate-pronunciation", "speech-recognition",
     "saved-characters"}

\* ids the savedCharacters table can hand out
CharacterIds == {"c1", "c2"}


\* the column storage.incrementUsage(userId, type) writes for each endpoint
UsageColumn(ep) ==
  CASE ep = "generate-image" -> "imageGenerationCount"
    [] ep = "generate-dialogue" -> "conversationCount"
    [] ep = "conversation-response" -> "conversationCount"
    [] ep = "tts" -> "ttsUsageCount"

VARIABLES
  users,      \* the users table: id -> row
  now,        \* the server clock, in days
  req,        \* the request handled in each slot
  started,    \* requests accepted so far
  characters  \* the savedCharacters table: id -> <<row>>, or <<>> once the row is deleted

serverVars == <<users, now, req, started, characters>>

VARIABLES
  mounted,           \* DramaScene is rendered and its mount effect has run
  currentScenario,   \* useState<ScenarioConfig | null>
  dialogueHistory,   \* useState<DialogueTurn[]>
  isListening,
  isProcessing,
  sceneProgress,
  autoListenMode,
  conversationEnded,
  awaitingRetry,
  micPending,        \* startListening calls awaiting getUserMedia
  recorder,          \* state of mediaRecorderRef.current
  stopQueued,        \* stop events of recorders not yet delivered to onstop
  captures,          \* streams getUserMedia has granted so far
  resets,            \* resetScene calls so far
  starts,            \* startScenario calls in flight, by the await they are at
  procs,             \* onloadend callbacks in flight, by the await they are at
  audioChunks,       \* bytes held in audioChunksRef.current, counted up to the minimum
  micOpen,           \* streams (with their audio context) acquired and not released
  refLive,           \* streamRef / audioContextRef refer to a stream that is open
  relisten           \* the auto-listen effect's 2-second timeout is pending

sceneVars ==
  <<mounted, currentScenario, dialogueHistory, isListening, isProcessing, sceneProgress,
    autoListenMode, conversationEnded, awaitingRetry, micPending, recorder, stopQueued,
    captures, resets, starts, procs, audioChunks, micOpen, refLive, relisten>>

\* One call of a pure function of the code: its arguments and what it returned.
VARIABLES
  call,       \* the arguments
  result      \* <<>> before the call, <<value>> after it

funVars == <<call, result>>

vars == <<serverVars, sceneVars, funVars>>

\* A nullable column holds <<>> (no value) or <<v>>.
NoValue == <<>>

Stored(v) == <<v>>

\* parseInt(x || '0') of a stored count: a missing value counts as 0
ParseCount(v) == IF v = NoValue THEN 0 ELSE v[1]

\* String(parseInt(x || '0') + 1): the value incrementUsage writes back
NextCount(v) == Stored(ParseCount(v) + 1)

IdleReq ==
  [pc |-> "idle", user |-> Null, endpoint |-> Null, read |-> NoValue,
   provider |-> "none", status |-> 0, canUse |-> FALSE, currentUsage |-> 0, limit |-> 0, clock |-> 0,
   arg |-> Null, body |-> {}]

UserRow(admin, tier, conversationCount, imageGenerationCount) ==
  [admin |-> admin, subscriptionTier |-> tier, subscriptionStatus |-> NoValue,
   conversationCount |-> conversationCount, imageGenerationCount |-> imageGenerationCount,
   ttsUsageCount |-> NoValue, dailyUsageCount |-> NoValue, lastUsageReset |-> Stored(0)]

\* The row the table can hold when the first request arrives: an ordinary
\* account of any tier, fresh (no counts stored) or one use short of its limits,
\* or the designated admin identity one use short of the limits.
InitUsers ==
  UNION { { [id \in UserIds |-> UserRow(FALSE, t, NoValue, NoValue)],
            [id \in UserIds |-> UserRow(FALSE, t, Stored(limits[t] - 1),
                                        Stored(imageLimits[t] - 1))] }
          : t \in Tiers }
  \cup { [id \in UserIds |-> UserRow(TRUE, "free", Stored(limits["free"] - 1),
                                      Stored(imageLimits["free"] - 1))] }

\* a saved character as the code reads it; a new row has no usage yet
SavedCharacter(userId, usageCount, lastUsedAt) ==
  [userId |-> userId, usageCount |-> usageCount, lastUsedAt |-> lastUsedAt]

\* no row was ever inserted
NoCharacters == <<>>

\* The table when the first request arrives: empty, or holding one character
\* of some account, never used or used once.
InitCharacters ==
  {NoCharacters} \cup
    { "c1" :> Stored(SavedCharacter(o, n, NoValue)) : o \in SessionIds, n \in {NoValue, Stored(1)} }

HandlersIdle ==
  /\ now = 0
  /\ req = [s \in Slots |-> IdleReq]
  /\ started = 0

ServerInit ==
  /\ users \in InitUsers
  /\ HandlersIdle
  /\ characters = NoCharacters

(***************************************************************************)
(* Quota checks (registerRoutes helpers).                                  *)
(***************************************************************************)
\* a check that lets the request through when the row is missing
NotFoundAllows == [canUse |-> TRUE, currentUsage |-> 0, limit |-> 0]

NotFound == [canUse |-> FALSE, currentUsage |-> 0, limit |-> 0]

\* the catch block of checkUsageLimit / checkImageUsageLimit
LookupError == [canUse |-> FALSE, currentUsage |-> 0, limit |-> 0]

AdminBypass == [canUse |-> TRUE, currentUsage |-> 0, limit |-> AdminLimit]

\* limits[tier] || 30
ConversationLimit(tier) == IF tier \in DOMAIN limits THEN limits[tier] ELSE 30

\* imageLimits[tier] || 1
ImageLimit(tier) == IF tier \in DOMAIN imageLimits THEN imageLimits[tier] ELSE 1

checkUsageLimit(userId) ==
  IF userId \notin DOMAIN users THEN NotFound
  ELSE IF users[userId].admin THEN AdminBypass
  ELSE LET row == users[userId]
           limit == ConversationLimit(row.subscriptionTier)
           currentUsage == ParseCount(row.conversationCount)
       IN  [canUse |-> currentUsage < limit, currentUsage |-> currentUsage, limit |-> limit]

checkImageUsageLimit(userId) ==
  IF userId \notin DOMAIN users THEN NotFound
  ELSE IF users[userId].admin THEN AdminBypass
  ELSE LET row == users[userId]
           limit == ImageLimit(row.subscriptionTier)
           currentUsage == ParseCount(row.imageGenerationCount)
       IN  [canUse |-> currentUsage < limit, currentUsage |-> currentUsage, limit |-> limit]

\* the check each metered handler awaits before it does anything else
EndpointCheck(ep, userId) ==
  IF ep = "generate-image" THEN checkImageUsageLimit(userId) ELSE checkUsageLimit(userId)

Free(s) == req[s].pc \in {"idle", "done"}

\* a new request is handled in the first free slot
Accept(s) ==
  /\ Free(s)
  /\ \A t \in Slots : t < s => ~Free(t)
  /\ started < MaxRequests
  /\ started' = started + 1

\* res.status(status).json(body): the handler ends, its locals are gone
Respond(s, status) ==
  [IdleReq EXCEPT !.pc = "done", !.status = status, !.provider = req[s].provider]

(***************************************************************************)
(* Handlers.                                                               *)
(***************************************************************************)
\* a handler that reaches its authentication check only after it has sent
\* its provider request
UnauthorizedAfterWork(s, ep) ==
  /\ Accept(s)
  /\ ep \in ProtectedEndpoints
  /\ req' = [req EXCEPT ![s] =
               [IdleReq EXCEPT !.pc = "done", !.status = 401, !.provider = "called"]]
  /\ UNCHANGED <<users, now>>
  /\ UNCHANGED <<characters, sceneVars, funVars>>

\* if (!req.isAuthenticated()) return res.status(401)
Unauthorized(s, ep) ==
  /\ Accept(s)
  /\ ep \in ProtectedEndpoints
  /\ req' = [req EXCEPT ![s] = [IdleReq EXCEPT !.pc = "done", !.status = 401]]
  /\ UNCHANGED <<users, now>>
  /\ UNCHANGED <<characters, sceneVars, funVars>>

\* CheckLimit with the 429 branch's return lost: the denied request goes on
\* to the provider
CheckLimitFallsThrough(s, u, ep) ==
  /\ Free(s)
  /\ \A t \in Slots : t < s => ~Free(t)
  /\ started < MaxRequests
  /\ started' = started + 1
  /\ LET check == EndpointCheck(ep, u)
     IN  req' = [req EXCEPT ![s] =
                   [IdleReq EXCEPT !.user = u, !.endpoint = ep, !.canUse = check.canUse,
                                   !.currentUsage = check.currentUsage,
                                   !.limit = check.limit, !.pc = "provider",
                                   !.provider = "called",
                                   !.status = IF check.canUse THEN 0 ELSE 429]]
  /\ UNCHANGED <<users, now>>
  /\ UNCHANGED <<characters, sceneVars, funVars>>

\* A metered handler from its start to the provider call it sends: the quota
\* check reads the user's row once; a denied request answers 429 and ends.
CheckLimit(s, u, ep) ==
  /\ Accept(s)
  /\ LET check == EndpointCheck(ep, u)
         r == [IdleReq EXCEPT !.user = u, !.endpoint = ep, !.canUse = check.canUse,
                              !.currentUsage = check.currentUsage, !.limit = check.limit]
     IN  req' = [req EXCEPT ![s] =
                   IF check.canUse
                   THEN [r EXCEPT !.pc = "provider", !.provider = "called"]
                   ELSE [r EXCEPT !.pc = "done", !.status = 429, !.user = Null,
                                  !.endpoint = Null]]
  /\ UNCHANGED <<users, now>>
  /\ UNCHANGED <<characters, sceneVars, funVars>>

\* the same, when storage.getUser throws inside the check: the check's catch
\* block answers for it
LookupFails(s, u, ep) ==
  /\ Accept(s)
  /\ LET check == LookupError
         r == [IdleReq EXCEPT !.user = u, !.endpoint = ep, !.canUse = check.canUse,
                              !.currentUsage = check.currentUsage, !.limit = check.limit]
     IN  req' = [req EXCEPT ![s] =
                   IF check.canUse
                   THEN [r EXCEPT !.pc = "provider", !.provider = "called"]
                   ELSE [r EXCEPT !.pc = "done", !.status = 429, !.user = Null,
                                  !.endpoint = Null]]
  /\ UNCHANGED <<users, now>>
  /\ UNCHANGED <<characters, sceneVars, funVars>>

\* the provider answered OK: the handler goes on to storage.incrementUsage
ProviderOk(s) ==
  /\ req[s].pc = "provider"
  /\ req' = [req EXCEPT ![s].pc = "increment", ![s].provider = "ok"]
  /\ UNCHANGED <<users, now, started>>
  /\ UNCHANGED <<characters, sceneVars, funVars>>

\* !openaiResponse.ok or a thrown error: the catch block answers 500
ProviderFail(s) ==
  /\ req[s].pc = "provider"
  /\ req' = [req EXCEPT ![s] = [Respond(s, 500) EXCEPT !.provider = "failed"]]
  /\ UNCHANGED <<users, now, started>>
  /\ UNCHANGED <<characters, sceneVars, funVars>>

\* incrementUsage: const user = await this.getUser(userId)
IncrementRead(s) ==
  /\ req[s].pc = "increment"
  /\ req' = [req EXCEPT ![s] =
                IF req[s].user \notin DOMAIN users
                THEN Respond(s, 200)
                ELSE [req[s] EXCEPT !.pc = "write",
                        !.read = users[req[s].user][UsageColumn(req[s].endpoint)]]]
  /\ UNCHANGED <<users, now, started>>
  /\ UNCHANGED <<characters, sceneVars, funVars>>

\* ids no row was given yet
FreshIds == CharacterIds \ DOMAIN characters

\* storage.saveCharacter: the table after the insert; with no id left the
\* insert fails and the table is as it was
saveCharacter(userId) ==
  IF FreshIds = {} THEN characters
  ELSE (CHOOSE c \in FreshIds : TRUE) :> Stored(SavedCharacter(userId, NoValue, NoValue))
         @@ characters

\* incrementUsage: await db.update(users).set(updates); then, in
\* generate-image, the character is saved (a failed insert is ignored); then
\* res.json
IncrementWrite(s) ==
  /\ req[s].pc = "write"
  /\ users' = [id \in DOMAIN users |->
                 IF id = req[s].user
                 THEN [users[id] EXCEPT ![UsageColumn(req[s].endpoint)] = NextCount(req[s].read)]
                 ELSE users[id]]
  /\ characters' = IF req[s].endpoint = "generate-image"
                   THEN saveCharacter(req[s].user)
                   ELSE characters
  /\ req' = [req EXCEPT ![s] = Respond(s, 200)]
  /\ UNCHANGED <<now, started>>
  /\ UNCHANGED <<sceneVars, funVars>>

\* Math.floor((now - lastReset) / day), lastReset = now for a missing value
DaysSinceReset(row, clock) ==
  IF row.lastUsageReset = NoValue THEN 0 ELSE clock - row.lastUsageReset[1]

\* const limits of POST /api/check-usage (conversations)
CheckUsageLimits == [free |-> 30, starter |-> 300, pro |-> 600, premium |-> 1200]

\* POST /api/check-usage up to its first write or its answer
CheckUsageRead(s, u) ==
  /\ Accept(s)
  /\ LET r == [IdleReq EXCEPT !.user = u, !.endpoint = "check-usage", !.clock = now]
     IN  req' = [req EXCEPT ![s] =
           IF u \notin DOMAIN users THEN [IdleReq EXCEPT !.pc = "done", !.status = 404]
           ELSE LET row == users[u]
                    reset == DaysSinceReset(row, now) >= ResetDays
                    currentUsage == IF reset THEN 0 ELSE ParseCount(row.dailyUsageCount)
                    limit == IF row.subscriptionTier \in DOMAIN CheckUsageLimits
                             THEN CheckUsageLimits[row.subscriptionTier]
                             ELSE CheckUsageLimits["free"]
                    a == [r EXCEPT !.canUse = currentUsage < limit,
                                   !.currentUsage = currentUsage, !.limit = limit]
                IN  IF reset THEN [a EXCEPT !.pc = "resetDaily"]
                    ELSE [a EXCEPT !.pc = "done", !.status = 200, !.user = Null,
                                   !.endpoint = Null, !.clock = 0]]
  /\ UNCHANGED <<users, now>>
  /\ UNCHANGED <<characters, sceneVars, funVars>>

\* await storage.updateUserSubscription(userId, {dailyUsageCount: "0", lastUsageReset: now})
CheckUsageReset(s) ==
  /\ req[s].pc = "resetDaily"
  /\ users' = [id \in DOMAIN users |->
                 IF id = req[s].user
                 THEN [users[id] EXCEPT !.dailyUsageCount = Stored(0),
                                        !.lastUsageReset = Stored(req[s].clock)]
                 ELSE users[id]]
  /\ req' = [req EXCEPT ![s] = Respond(s, 200)]
  /\ UNCHANGED <<now, started>>
  /\ UNCHANGED <<characters, sceneVars, funVars>>

\* PUT /api/admin/user/:id/reset-usage -> storage.resetUserUsage: one UPDATE
resetUserUsage(u) ==
  /\ users' = [id \in DOMAIN users |->
                 IF id = u
                 THEN [users[id] EXCEPT !.conversationCount = Stored(0),
                                        !.imageGenerationCount = Stored(0),
                                        !.ttsUsageCount = Stored(0),
                                        !.dailyUsageCount = Stored(0),
                                        !.lastUsageReset = Stored(now)]
                 ELSE users[id]]
  /\ UNCHANGED <<now, req, started>>
  /\ UNCHANGED <<characters, sceneVars, funVars>>

\* time passes between requests
AdvanceTime(d) ==
  /\ now + d <= MaxDay
  /\ now' = now + d
  /\ UNCHANGED <<users, req, started>>
  /\ UNCHANGED <<characters, sceneVars, funVars>>

DaySteps == {ResetDays - 1, ResetDays}

ServerNext ==
  \/ \E s \in Slots, ep \in ProtectedEndpoints : Unauthorized(s, ep)
  \/ \E s \in Slots, u \in SessionIds, ep \in MeteredEndpoints : CheckLimit(s, u, ep)
  \/ \E s \in Slots, u \in SessionIds, ep \in MeteredEndpoints : LookupFails(s, u, ep)
  \/ \E s \in Slots : ProviderOk(s)
  \/ \E s \in Slots : ProviderFail(s)
  \/ \E s \in Slots : IncrementRead(s)
  \/ \E s \in Slots : IncrementWrite(s)
  \/ \E s \in Slots, u \in UserIds : CheckUsageRead(s, u)
  \/ \E s \in Slots : CheckUsageReset(s)
  \/ \E u \in UserIds : resetUserUsage(u)
  \/ \E d \in DaySteps : AdvanceTime(d)

(***************************************************************************)
(* Saved characters and subscriptions (storage and routes).                *)
(***************************************************************************)
\* getCharacter with the owner left out of the WHERE clause
getCharacterAnyOwner(id, userId) ==
  IF id \in DOMAIN characters THEN characters[id] ELSE NoValue

\* storage.getCharacter: WHERE id = ? AND userId = ?
getCharacter(id, userId) ==
  IF id \in DOMAIN characters /\ characters[id] # NoValue /\ characters[id][1].userId = userId
  THEN characters[id]
  ELSE NoValue

\* storage.getUserCharacters: the ids of the rows WHERE userId = ?
getUserCharacters(userId) ==
  {c \in DOMAIN characters : characters[c] # NoValue /\ characters[c][1].userId = userId}

\* GET /api/saved-characters
ListCharacters(s, u) ==
  /\ Accept(s)
  /\ req' = [req EXCEPT ![s] =
               [IdleReq EXCEPT !.pc = "done", !.status = 200, !.user = u,
                               !.body = getUserCharacters(u)]]
  /\ UNCHANGED <<users, now, characters>>
  /\ UNCHANGED <<sceneVars, funVars>>

\* POST /api/saved-characters
SaveCharacter(s, u) ==
  /\ Accept(s)
  /\ characters' = saveCharacter(u)
  /\ req' = [req EXCEPT ![s] =
               IF FreshIds = {} THEN [IdleReq EXCEPT !.pc = "done", !.status = 500]
               ELSE [IdleReq EXCEPT !.pc = "done", !.status = 200, !.user = u,
                                    !.body = DOMAIN characters' \ DOMAIN characters]]
  /\ UNCHANGED <<users, now>>
  /\ UNCHANGED <<sceneVars, funVars>>

\* GET /api/saved-characters/:id up to await storage.updateCharacterUsage
GetCharacter(s, u, c) ==
  /\ Accept(s)
  /\ req' = [req EXCEPT ![s] =
               IF getCharacter(c, u) = NoValue
               THEN [IdleReq EXCEPT !.pc = "done", !.status = 404, !.user = u, !.arg = c]
               ELSE [IdleReq EXCEPT !.pc = "usageSelect", !.user = u, !.arg = c,
                                    !.endpoint = "saved-characters", !.body = {c}]]
  /\ UNCHANGED <<users, now, characters>>
  /\ UNCHANGED <<sceneVars, funVars>>

\* updateCharacterUsage: SELECT ... WHERE id = ?
UsageSelect(s) ==
  /\ req[s].pc = "usageSelect"
  /\ req' = [req EXCEPT ![s] =
               IF characters[req[s].arg] = NoValue
               THEN [Respond(s, 200) EXCEPT !.user = req[s].user, !.body = req[s].body]
               ELSE [req[s] EXCEPT !.pc = "usageUpdate",
                                   !.read = characters[req[s].arg][1].usageCount]]
  /\ UNCHANGED <<users, now, started, characters>>
  /\ UNCHANGED <<sceneVars, funVars>>

\* updateCharacterUsage: UPDATE ... WHERE id = ?; then res.json(character)
UsageUpdate(s) ==
  /\ req[s].pc = "usageUpdate"
  /\ characters' =
       [c \in DOMAIN characters |->
          IF c = req[s].arg /\ characters[c] # NoValue
          THEN Stored([characters[c][1] EXCEPT !.usageCount = NextCount(req[s].read),
                                               !.lastUsedAt = Stored(now)])
          ELSE characters[c]]
  /\ req' = [req EXCEPT ![s] =
               [Respond(s, 200) EXCEPT !.user = req[s].user, !.body = req[s].body]]
  /\ UNCHANGED <<users, now, started>>
  /\ UNCHANGED <<sceneVars, funVars>>

\* DELETE /api/saved-characters/:id -> storage.deleteCharacter:
\* DELETE ... WHERE id = ? AND userId = ?
DeleteCharacter(s, u, c) ==
  /\ Accept(s)
  /\ characters' = [d \in DOMAIN characters |->
                      IF d = c /\ getCharacter(c, u) # NoValue THEN NoValue
                      ELSE characters[d]]
  /\ req' = [req EXCEPT ![s] =
               IF getCharacter(c, u) = NoValue
               THEN [IdleReq EXCEPT !.pc = "done", !.status = 404, !.user = u, !.arg = c]
               ELSE [IdleReq EXCEPT !.pc = "done", !.status = 200, !.user = u]]
  /\ UNCHANGED <<users, now>>
  /\ UNCHANGED <<sceneVars, funVars>>

\* req.body.provider
PaymentProviders == {"paddle", "stripe"}

\* req.body.tier: a plan, or a tier no plan is sold for
PaidTiers == {"pro"}

RequestedTiers == PaidTiers \cup {"free"}

\* getPaddlePriceId(tier): the price id, or <<>> where it throws
getPaddlePriceId(tier) ==
  IF tier \in {"starter", "pro", "premium"} THEN Stored(tier) ELSE NoValue

\* POST /api/subscribe up to the request it sends to Paddle; configured is
\* process.env.PADDLE_API_KEY being set
Subscribe(s, u, tier, provider, configured) ==
  /\ Accept(s)
  /\ req' = [req EXCEPT ![s] =
               IF provider # "paddle" \/ ~configured
               THEN [IdleReq EXCEPT !.pc = "done", !.status = 400]
               ELSE IF getPaddlePriceId(tier) = NoValue
               THEN [IdleReq EXCEPT !.pc = "done", !.status = 500]
               ELSE [IdleReq EXCEPT !.pc = "paddle", !.user = u, !.arg = tier,
                                    !.endpoint = "subscribe", !.provider = "called"]]
  /\ UNCHANGED <<users, now, characters>>
  /\ UNCHANGED <<sceneVars, funVars>>

\* Paddle answered OK: the handler goes on to storage.updateUserSubscription
PaddleOk(s) ==
  /\ req[s].pc = "paddle"
  /\ req' = [req EXCEPT ![s].pc = "activate", ![s].provider = "ok"]
  /\ UNCHANGED <<users, now, started, characters>>
  /\ UNCHANGED <<sceneVars, funVars>>

\* await storage.updateUserSubscription(userId, {subscriptionTier: tier, ...});
\* res.json
Activate(s) ==
  /\ req[s].pc = "activate"
  /\ users' = [id \in DOMAIN users |->
                 IF id = req[s].user
                 THEN [users[id] EXCEPT !.subscriptionTier = req[s].arg,
                                        !.subscriptionStatus = Stored("active")]
                 ELSE users[id]]
  /\ req' = [req EXCEPT ![s] = Respond(s, 200)]
  /\ UNCHANGED <<now, started, characters>>
  /\ UNCHANGED <<sceneVars, funVars>>

\* a rejection branch that stores the requested tier all the same
PaddleRejectedStoresTier(s) ==
  /\ req[s].pc = "paddle"
  /\ users' = [id \in DOMAIN users |->
                 IF id = req[s].user
                 THEN [users[id] EXCEPT !.subscriptionTier = req[s].arg,
                                        !.subscriptionStatus = Stored("active")]
                 ELSE users[id]]
  /\ req' = [req EXCEPT ![s] = [Respond(s, 400) EXCEPT !.provider = "failed"]]
  /\ UNCHANGED <<now, started, characters>>
  /\ UNCHANGED <<sceneVars, funVars>>

\* Paddle answered, not OK: the else branch of if (paddlePayment.ok)
PaddleRejected(s) ==
  /\ req[s].pc = "paddle"
  /\ req' = [req EXCEPT ![s] = [Respond(s, 400) EXCEPT !.provider = "failed"]]
  /\ UNCHANGED <<users, now, started, characters>>
  /\ UNCHANGED <<sceneVars, funVars>>

\* fetch or paddlePayment.json() threw: catch (paddleError)
PaddleThrows(s) ==
  /\ req[s].pc = "paddle"
  /\ req' = [req EXCEPT ![s] = [Respond(s, 500) EXCEPT !.provider = "failed"]]
  /\ UNCHANGED <<users, now, started, characters>>
  /\ UNCHANGED <<sceneVars, funVars>>

\* POST /api/cancel-subscription: the handler is synchronous, it answers
\* without awaiting storage.updateUserSubscription
CancelSubscription(s, u) ==
  /\ Accept(s)
  /\ req' = [req EXCEPT ![s] =
               [IdleReq EXCEPT !.pc = "cancel", !.status = 200, !.user = u,
                               !.endpoint = "cancel-subscription"]]
  /\ UNCHANGED <<users, now, characters>>
  /\ UNCHANGED <<sceneVars, funVars>>

\* the update the cancel handler started: subscriptionTier 'free',
\* subscriptionStatus 'cancelled'
CancelWrite(s) ==
  /\ req[s].pc = "cancel"
  /\ users' = [id \in DOMAIN users |->
                 IF id = req[s].user
                 THEN [users[id] EXCEPT !.subscriptionTier = "free",
                                        !.subscriptionStatus = Stored("cancelled")]
                 ELSE users[id]]
  /\ req' = [req EXCEPT ![s] = Respond(s, 200)]
  /\ UNCHANGED <<now, started, characters>>
  /\ UNCHANGED <<sceneVars, funVars>>

\* the update rejects: the promise was never awaited, so the catch block of
\* the handler does not see it and the answer already sent stands
CancelWriteFails(s) ==
  /\ req[s].pc = "cancel"
  /\ req' = [req EXCEPT ![s] = Respond(s, 200)]
  /\ UNCHANGED <<users, now, started, characters>>
  /\ UNCHANGED <<sceneVars, funVars>>

AccountNext ==
  \/ \E s \in Slots, ep \in ProtectedEndpoints : Unauthorized(s, ep)
  \/ \E s \in Slots, u \in SessionIds : ListCharacters(s, u)
  \/ \E s \in Slots, u \in SessionIds : SaveCharacter(s, u)
  \/ \E s \in Slots, u \in SessionIds, c \in CharacterIds : GetCharacter(s, u, c)
  \/ \E s \in Slots : UsageSelect(s)
  \/ \E s \in Slots : UsageUpdate(s)
  \/ \E s \in Slots, u \in SessionIds, c \in CharacterIds : DeleteCharacter(s, u, c)
  \/ \E s \in Slots, u \in SessionIds, tier \in RequestedTiers, provider \in PaymentProviders,
        configured \in BOOLEAN : Subscribe(s, u, tier, provider, configured)
  \/ \E s \in Slots : PaddleOk(s)
  \/ \E s \in Slots : Activate(s)
  \/ \E s \in Slots : PaddleRejected(s)
  \/ \E s \in Slots : PaddleThrows(s)
  \/ \E s \in Slots, u \in SessionIds : CancelSubscription(s, u)
  \/ \E s \in Slots : CancelWrite(s)
  \/ \E s \in Slots : CancelWriteFails(s)
  \/ \E s \in Slots, u \in SessionIds, ep \in MeteredEndpoints : CheckLimit(s, u, ep)
  \/ \E s \in Slots : ProviderOk(s)
  \/ \E s \in Slots : ProviderFail(s)
  \/ \E s \in Slots : IncrementRead(s)
  \/ \E s \in Slots : IncrementWrite(s)

(***************************************************************************)
(* The drama scene (DramaScene, client/src/pages/Auth.tsx).                *)
(*                                                                         *)
(* A handler runs to completion; an async function is cut at its awaits.   *)
(* What a request returns is the client's input: any answer the HTTP       *)
(* boundary can deliver (an error, or a body with or without the optional  *)
(* fields the client reads).                                               *)
(***************************************************************************)
MaxCaptures == 2
MaxResets == 1

ProgressStart == 10
ProgressStep == 15
ProgressMax == 100

\* audioBlob.size < 1000
MinAudioBytes == 1000

\* event.data.size of a recording's dataavailable event
AudioSizes == {500, 1000}

\* the opening line: dialogueResponse.lines[0], or the fixed greeting
Lines == {"generated", "greeting"}

\* the reply: response.response, or the text of generateContextualResponse's catch
Replies == {"reply", "fallback"}

StartStates ==
  {<<"dialogue", "none">>} \cup {<<pc, l>> : pc \in {"tts", "translate"}, l \in Lines}

ProcStates ==
  {<<"speech", "none">>, <<"context", "none">>}
    \cup {<<pc, r>> : pc \in {"tts", "translate"}, r \in Replies}

\* one more / one less call at a given await
Add(bag, x) == [bag EXCEPT ![x] = @ + 1]

Remove(bag, x) == [bag EXCEPT ![x] = @ - 1]

Move(bag, x, y) == Add(Remove(bag, x), y)

InFlight(bag) == {x \in DOMAIN bag : bag[x] > 0}

SystemTurn == [speaker |-> "system", text |-> "scene", audio |-> FALSE]

UserTurn == [speaker |-> "user", text |-> "utterance", audio |-> FALSE]

CharacterTurn(text, audio) == [speaker |-> "character", text |-> text, audio |-> audio]

SceneInit ==
  /\ mounted = FALSE
  /\ currentScenario = Null
  /\ dialogueHistory = <<>>
  /\ isListening = FALSE
  /\ isProcessing = FALSE
  /\ sceneProgress = 0
  /\ autoListenMode = FALSE
  /\ conversationEnded = FALSE
  /\ awaitingRetry = FALSE
  /\ micPending = 0
  /\ recorder = "none"
  /\ stopQueued = 0
  /\ captures = 0
  /\ resets = 0
  /\ starts = [x \in StartStates |-> 0]
  /\ procs = [x \in ProcStates |-> 0]
  /\ audioChunks = 0
  /\ micOpen = 0
  /\ refLive = FALSE
  /\ relisten = FALSE

\* The auto-listen effect after the render that follows a handler: when one
\* of its dependencies changed (a history the handler set is a new array, so
\* it always counts as changed), the cleanup clears the pending timeout and
\* the effect sets a new one if its condition holds.
AutoListenEffect(historySet) ==
  relisten' =
    IF ~historySet /\ <<dialogueHistory', autoListenMode', isListening', isProcessing'>>
                        = <<dialogueHistory, autoListenMode, isListening, isProcessing>>
    THEN relisten
    ELSE /\ autoListenMode'
         /\ Len(dialogueHistory') > 0
         /\ dialogueHistory'[Len(dialogueHistory')].speaker = "character"
         /\ ~isListening'
         /\ ~isProcessing'

\* initializeScene: resolve the scenario, then call startScenario (which runs
\* up to its first await, the opening-line request)
initializeScene ==
  /\ currentScenario' = "scenario"
  /\ starts' = Add(starts, <<"dialogue", "none">>)

\* the scene-init effect on mount: the history is empty, so it initializes
Mount ==
  /\ ~mounted
  /\ mounted' = TRUE
  /\ initializeScene
  /\ UNCHANGED <<dialogueHistory, isListening, isProcessing, sceneProgress, autoListenMode,
                 conversationEnded, awaitingRetry, micPending, recorder, stopQueued,
                 captures, resets, procs>>
  /\ UNCHANGED <<audioChunks, micOpen, refLive>>
  /\ UNCHANGED <<serverVars, funVars>>
  /\ AutoListenEffect(FALSE)

\* StartFallback without its setSceneProgress(10)
StartFallbackKeepsProgress ==
  /\ dialogueHistory' = <<SystemTurn, CharacterTurn("greeting", FALSE)>>
  /\ sceneProgress' = sceneProgress

\* startScenario, catch block: the fixed greeting, no audio
StartFallback ==
  /\ dialogueHistory' = <<SystemTurn, CharacterTurn("greeting", FALSE)>>
  /\ sceneProgress' = ProgressStart

\* startScenario: POST /api/generate-dialogue answered; the TTS request goes out
StartDialogueOk(line) ==
  /\ starts[<<"dialogue", "none">>] > 0
  /\ starts' = Move(starts, <<"dialogue", "none">>, <<"tts", line>>)
  /\ UNCHANGED <<mounted, currentScenario, dialogueHistory, isListening, isProcessing,
                 sceneProgress, autoListenMode, conversationEnded, awaitingRetry, micPending,
                 recorder, stopQueued, captures, resets, procs>>
  /\ UNCHANGED <<audioChunks, micOpen, refLive>>
  /\ UNCHANGED <<serverVars, funVars>>
  /\ AutoListenEffect(FALSE)

\* startScenario: the opening-line request failed
StartDialogueFail ==
  /\ starts[<<"dialogue", "none">>] > 0
  /\ starts' = Remove(starts, <<"dialogue", "none">>)
  /\ StartFallback
  /\ UNCHANGED <<mounted, currentScenario, isListening, isProcessing, autoListenMode,
                 conversationEnded, awaitingRetry, micPending, recorder, stopQueued,
                 captures, resets, procs>>
  /\ UNCHANGED <<audioChunks, micOpen, refLive>>
  /\ UNCHANGED <<serverVars, funVars>>
  /\ AutoListenEffect(TRUE)

\* startScenario: POST /api/tts answered; the translation request goes out
StartTtsOk(line) ==
  /\ starts[<<"tts", line>>] > 0
  /\ starts' = Move(starts, <<"tts", line>>, <<"translate", line>>)
  /\ UNCHANGED <<mounted, currentScenario, dialogueHistory, isListening, isProcessing,
                 sceneProgress, autoListenMode, conversationEnded, awaitingRetry, micPending,
                 recorder, stopQueued, captures, resets, procs>>
  /\ UNCHANGED <<audioChunks, micOpen, refLive>>
  /\ UNCHANGED <<serverVars, funVars>>
  /\ AutoListenEffect(FALSE)

\* startScenario: the TTS request failed
StartTtsFail(line) ==
  /\ starts[<<"tts", line>>] > 0
  /\ starts' = Remove(starts, <<"tts", line>>)
  /\ StartFallback
  /\ UNCHANGED <<mounted, currentScenario, isListening, isProcessing, autoListenMode,
                 conversationEnded, awaitingRetry, micPending, recorder, stopQueued,
                 captures, resets, procs>>
  /\ UNCHANGED <<audioChunks, micOpen, refLive>>
  /\ UNCHANGED <<serverVars, funVars>>
  /\ AutoListenEffect(TRUE)

\* startScenario: the translation request answered or failed (its own
\* try/catch substitutes a placeholder); the history is set
StartTranslated(line) ==
  /\ starts[<<"translate", line>>] > 0
  /\ starts' = Remove(starts, <<"translate", line>>)
  /\ dialogueHistory' = <<SystemTurn, CharacterTurn(line, TRUE)>>
  /\ sceneProgress' = ProgressStart
  /\ UNCHANGED <<mounted, currentScenario, isListening, isProcessing, autoListenMode,
                 conversationEnded, awaitingRetry, micPending, recorder, stopQueued,
                 captures, resets, procs>>
  /\ UNCHANGED <<audioChunks, micOpen, refLive>>
  /\ UNCHANGED <<serverVars, funVars>>
  /\ AutoListenEffect(TRUE)

\* the capture button is rendered: !conversationEnded && !isListening && !isProcessing
\* (and the scene is past "Loading scene...")
CaptureAvailable ==
  /\ currentScenario # Null
  /\ ~conversationEnded
  /\ ~isListening
  /\ ~isProcessing

\* onClick={startListening}: runs up to await getUserMedia
ClickAction ==
  /\ CaptureAvailable
  /\ captures + micPending < MaxCaptures
  /\ micPending' = micPending + 1
  /\ UNCHANGED <<mounted, currentScenario, dialogueHistory, isListening, isProcessing,
                 sceneProgress, autoListenMode, conversationEnded, awaitingRetry, recorder,
                 stopQueued, captures, resets, starts, procs>>
  /\ UNCHANGED <<audioChunks, micOpen, refLive>>
  /\ UNCHANGED <<serverVars, funVars>>
  /\ AutoListenEffect(FALSE)

\* startListening after getUserMedia resolved: a new recorder starts
MicGranted ==
  /\ micPending > 0
  /\ micPending' = micPending - 1
  /\ recorder' = "recording"
  /\ isListening' = TRUE
  /\ captures' = captures + 1
  /\ audioChunks' = 0
  /\ micOpen' = micOpen + 1
  /\ refLive' = TRUE
  /\ UNCHANGED <<mounted, currentScenario, dialogueHistory, isProcessing, sceneProgress,
                 autoListenMode, conversationEnded, awaitingRetry, stopQueued, resets,
                 starts, procs>>
  /\ UNCHANGED <<serverVars, funVars>>
  /\ AutoListenEffect(FALSE)

\* startListening after getUserMedia resolved, when new AudioContext() or
\* new MediaRecorder(stream) throws: the catch block shows the toast, the
\* stream stays in streamRef
MicGrantedThenThrows ==
  /\ micPending > 0
  /\ micPending' = micPending - 1
  /\ captures' = captures + 1
  /\ micOpen' = micOpen + 1
  /\ refLive' = TRUE
  /\ UNCHANGED <<mounted, currentScenario, dialogueHistory, isListening, isProcessing,
                 sceneProgress, autoListenMode, conversationEnded, awaitingRetry, recorder,
                 stopQueued, resets, starts, procs, audioChunks>>
  /\ UNCHANGED <<serverVars, funVars>>
  /\ AutoListenEffect(FALSE)

\* startListening, catch block: "Microphone Access Denied"
MicDenied ==
  /\ micPending > 0
  /\ micPending' = micPending - 1
  /\ UNCHANGED <<mounted, currentScenario, dialogueHistory, isListening, isProcessing,
                 sceneProgress, autoListenMode, conversationEnded, awaitingRetry, recorder,
                 stopQueued, captures, resets, starts, procs>>
  /\ UNCHANGED <<audioChunks, micOpen, refLive>>
  /\ UNCHANGED <<serverVars, funVars>>
  /\ AutoListenEffect(FALSE)

\* onClick={stopListening}, rendered while isListening
stopListening ==
  /\ isListening
  /\ IF recorder = "recording"
     THEN recorder' = "inactive" /\ stopQueued' = stopQueued + 1
     ELSE UNCHANGED <<recorder, stopQueued>>
  /\ micOpen' = IF refLive THEN micOpen - 1 ELSE micOpen
  /\ refLive' = FALSE
  /\ isListening' = FALSE
  /\ UNCHANGED <<mounted, currentScenario, dialogueHistory, isProcessing, sceneProgress,
                 autoListenMode, conversationEnded, awaitingRetry, micPending, captures,
                 resets, starts, procs>>
  /\ UNCHANGED audioChunks
  /\ UNCHANGED <<serverVars, funVars>>
  /\ AutoListenEffect(FALSE)

\* audioChunksRef.current.push(event.data): the bytes held afterwards. The
\* code only ever compares the blob's size with the minimum, so the count
\* stops there.
PushChunk(held, size) ==
  IF held + size < MinAudioBytes THEN held + size ELSE MinAudioBytes

\* processUserResponse without its size check: every recording is read
processUserResponseNoSizeCheck(size) ==
  /\ stopQueued > 0
  /\ stopQueued' = stopQueued - 1
  /\ audioChunks' = PushChunk(audioChunks, size)
  /\ procs' = Add(procs, <<"speech", "none">>)
  /\ isProcessing' = FALSE
  /\ UNCHANGED <<mounted, currentScenario, dialogueHistory, isListening, sceneProgress,
                 autoListenMode, conversationEnded, awaitingRetry, micPending, recorder,
                 captures, resets, starts, micOpen, refLive>>
  /\ UNCHANGED <<serverVars, funVars>>
  /\ AutoListenEffect(FALSE)

\* the stopped recorder's dataavailable event (a chunk of size > 0 is pushed)
\* and then mediaRecorder.onstop = processUserResponse, its synchronous part:
\* setIsProcessing(true); a blob under 1000 bytes ends it; otherwise the reader
\* is started; the finally block runs setIsProcessing(false) before it returns
processUserResponse(size) ==
  /\ stopQueued > 0
  /\ stopQueued' = stopQueued - 1
  /\ audioChunks' = PushChunk(audioChunks, size)
  /\ procs' = IF audioChunks' < MinAudioBytes THEN procs ELSE Add(procs, <<"speech", "none">>)
  /\ isProcessing' = FALSE
  /\ UNCHANGED <<mounted, currentScenario, dialogueHistory, isListening, sceneProgress,
                 autoListenMode, conversationEnded, awaitingRetry, micPending, recorder,
                 captures, resets, starts, micOpen, refLive>>
  /\ UNCHANGED <<serverVars, funVars>>
  /\ AutoListenEffect(FALSE)

\* onloadend: POST /api/speech-recognition failed; the catch block shows a toast
SpeechFail ==
  /\ procs[<<"speech", "none">>] > 0
  /\ procs' = Remove(procs, <<"speech", "none">>)
  /\ UNCHANGED <<mounted, currentScenario, dialogueHistory, isListening, isProcessing,
                 sceneProgress, autoListenMode, conversationEnded, awaitingRetry, micPending,
                 recorder, stopQueued, captures, resets, starts>>
  /\ UNCHANGED <<audioChunks, micOpen, refLive>>
  /\ UNCHANGED <<serverVars, funVars>>
  /\ AutoListenEffect(FALSE)

\* onloadend: the transcription is empty after trim
SpeechEmpty ==
  /\ procs[<<"speech", "none">>] > 0
  /\ procs' = Remove(procs, <<"speech", "none">>)
  /\ isProcessing' = FALSE
  /\ UNCHANGED <<mounted, currentScenario, dialogueHistory, isListening, sceneProgress,
                 autoListenMode, conversationEnded, awaitingRetry, micPending, recorder,
                 stopQueued, captures, resets, starts>>
  /\ UNCHANGED <<audioChunks, micOpen, refLive>>
  /\ UNCHANGED <<serverVars, funVars>>
  /\ AutoListenEffect(FALSE)

\* onloadend: the user turn is appended and generateContextualResponse sends
\* POST /api/conversation-response
SpeechOk ==
  /\ procs[<<"speech", "none">>] > 0
  /\ procs' = Move(procs, <<"speech", "none">>, <<"context", "none">>)
  /\ dialogueHistory' = Append(dialogueHistory, UserTurn)
  /\ UNCHANGED <<mounted, currentScenario, isListening, isProcessing, sceneProgress,
                 autoListenMode, conversationEnded, awaitingRetry, micPending, recorder,
                 stopQueued, captures, resets, starts>>
  /\ UNCHANGED <<audioChunks, micOpen, refLive>>
  /\ UNCHANGED <<serverVars, funVars>>
  /\ AutoListenEffect(TRUE)

\* what generateContextualResponse can return: its catch block's fallback
\* (no shouldEndConversation), or the response's fields
CatchResponse == [text |-> "fallback", needsCorrection |-> FALSE, shouldEndConversation |-> FALSE]

ContextualResponses ==
  {CatchResponse}
    \cup [text : {"reply"}, needsCorrection : BOOLEAN, shouldEndConversation : BOOLEAN]

\* ContextReturned with the correction branch's return lost: the turn goes on
\* to the TTS request
ContextReturnedFallsThrough(response) ==
  /\ procs[<<"context", "none">>] > 0
  /\ awaitingRetry' = (awaitingRetry \/ response.needsCorrection)
  /\ conversationEnded' = (conversationEnded \/ response.shouldEndConversation)
  /\ procs' = Move(procs, <<"context", "none">>, <<"tts", response.text>>)
  /\ UNCHANGED <<mounted, currentScenario, dialogueHistory, isListening, isProcessing,
                 sceneProgress, autoListenMode, micPending, recorder, stopQueued, captures,
                 resets, starts>>
  /\ UNCHANGED <<audioChunks, micOpen, refLive>>
  /\ UNCHANGED <<serverVars, funVars>>
  /\ AutoListenEffect(FALSE)

\* onloadend after await generateContextualResponse: the correction branch
\* returns; otherwise the end flag is set and the TTS request goes out
ContextReturned(response) ==
  /\ procs[<<"context", "none">>] > 0
  /\ IF response.needsCorrection
     THEN /\ awaitingRetry' = TRUE
          /\ isProcessing' = FALSE
          /\ procs' = Remove(procs, <<"context", "none">>)
          /\ UNCHANGED conversationEnded
     ELSE /\ conversationEnded' = (conversationEnded \/ response.shouldEndConversation)
          /\ procs' = Move(procs, <<"context", "none">>, <<"tts", response.text>>)
          /\ UNCHANGED <<awaitingRetry, isProcessing>>
  /\ UNCHANGED <<mounted, currentScenario, dialogueHistory, isListening, sceneProgress,
                 autoListenMode, micPending, recorder, stopQueued, captures, resets, starts>>
  /\ UNCHANGED <<audioChunks, micOpen, refLive>>
  /\ UNCHANGED <<serverVars, funVars>>
  /\ AutoListenEffect(FALSE)

\* onloadend: POST /api/tts answered; the translation request goes out
TtsOk(reply) ==
  /\ procs[<<"tts", reply>>] > 0
  /\ procs' = Move(procs, <<"tts", reply>>, <<"translate", reply>>)
  /\ UNCHANGED <<mounted, currentScenario, dialogueHistory, isListening, isProcessing,
                 sceneProgress, autoListenMode, conversationEnded, awaitingRetry, micPending,
                 recorder, stopQueued, captures, resets, starts>>
  /\ UNCHANGED <<audioChunks, micOpen, refLive>>
  /\ UNCHANGED <<serverVars, funVars>>
  /\ AutoListenEffect(FALSE)

\* onloadend: POST /api/tts failed; apiRequest throws into the outer catch
TtsFail(reply) ==
  /\ procs[<<"tts", reply>>] > 0
  /\ procs' = Remove(procs, <<"tts", reply>>)
  /\ UNCHANGED <<mounted, currentScenario, dialogueHistory, isListening, isProcessing,
                 sceneProgress, autoListenMode, conversationEnded, awaitingRetry, micPending,
                 recorder, stopQueued, captures, resets, starts>>
  /\ UNCHANGED <<audioChunks, micOpen, refLive>>
  /\ UNCHANGED <<serverVars, funVars>>
  /\ AutoListenEffect(FALSE)

\* Math.min(prev + 15, 100)
NextProgress(prev) == IF prev + ProgressStep < ProgressMax THEN prev + ProgressStep ELSE ProgressMax

\* onloadend: the translation answered or failed (placeholder); the character
\* turn is appended, the progress raised and awaitingRetry cleared
Translated(reply) ==
  /\ procs[<<"translate", reply>>] > 0
  /\ procs' = Remove(procs, <<"translate", reply>>)
  /\ dialogueHistory' = Append(dialogueHistory, CharacterTurn(reply, TRUE))
  /\ sceneProgress' = NextProgress(sceneProgress)
  /\ awaitingRetry' = FALSE
  /\ UNCHANGED <<mounted, currentScenario, isListening, isProcessing, autoListenMode,
                 conversationEnded, micPending, recorder, stopQueued, captures, resets,
                 starts>>
  /\ UNCHANGED <<audioChunks, micOpen, refLive>>
  /\ UNCHANGED <<serverVars, funVars>>
  /\ AutoListenEffect(TRUE)

\* onClick={resetScene}, rendered while conversationEnded: the history is
\* cleared and startScenario called; clearing a non-empty history changes
\* dialogueHistory.length, so the scene-init effect runs and initializes again
resetScene ==
  /\ currentScenario # Null
  /\ conversationEnded
  /\ resets < MaxResets
  /\ resets' = resets + 1
  /\ dialogueHistory' = <<>>
  /\ sceneProgress' = 0
  /\ autoListenMode' = FALSE
  /\ starts' = IF Len(dialogueHistory) > 0
               THEN Add(Add(starts, <<"dialogue", "none">>), <<"dialogue", "none">>)
               ELSE Add(starts, <<"dialogue", "none">>)
  /\ UNCHANGED <<mounted, currentScenario, isListening, isProcessing, conversationEnded,
                 awaitingRetry, micPending, recorder, stopQueued, captures, procs>>
  /\ UNCHANGED <<audioChunks, micOpen, refLive>>
  /\ UNCHANGED <<serverVars, funVars>>
  /\ AutoListenEffect(TRUE)

\* the timeout of the auto-listen effect fires: its closure holds the values
\* the effect saw, so its test passes and startListening runs up to await
\* getUserMedia
RelistenFires ==
  /\ relisten
  /\ captures + micPending < MaxCaptures
  /\ relisten' = FALSE
  /\ micPending' = micPending + 1
  /\ UNCHANGED <<mounted, currentScenario, dialogueHistory, isListening, isProcessing,
                 sceneProgress, autoListenMode, conversationEnded, awaitingRetry, recorder,
                 stopQueued, captures, resets, starts, procs>>
  /\ UNCHANGED <<audioChunks, micOpen, refLive>>
  /\ UNCHANGED <<serverVars, funVars>>

\* the hands-free toggle of the spec: setAutoListenMode(!autoListenMode)
ToggleAutoListen ==
  /\ currentScenario # Null
  /\ autoListenMode' = ~autoListenMode
  /\ UNCHANGED <<mounted, currentScenario, dialogueHistory, isListening, isProcessing,
                 sceneProgress, conversationEnded, awaitingRetry, micPending, recorder,
                 stopQueued, captures, resets, starts, procs>>
  /\ UNCHANGED <<audioChunks, micOpen, refLive>>
  /\ UNCHANGED <<serverVars, funVars>>
  /\ AutoListenEffect(FALSE)

SceneNext ==
  \/ Mount
  \/ \E line \in Lines : StartDialogueOk(line)
  \/ StartDialogueFail
  \/ \E line \in Lines : StartTtsOk(line)
  \/ \E line \in Lines : StartTtsFail(line)
  \/ \E line \in Lines : StartTranslated(line)
  \/ ClickAction
  \/ MicGranted
  \/ MicGrantedThenThrows
  \/ MicDenied
  \/ stopListening
  \/ \E size \in AudioSizes : processUserResponse(size)
  \/ SpeechFail
  \/ SpeechEmpty
  \/ SpeechOk
  \/ \E response \in ContextualResponses : ContextReturned(response)
  \/ \E reply \in Replies : TtsOk(reply)
  \/ \E reply \in Replies : TtsFail(reply)
  \/ \E reply \in Replies : Translated(reply)
  \/ resetScene

(***************************************************************************)
(* Scenario resolution (initializeScene, client/src/pages/Auth.tsx).       *)
(*                                                                         *)
(* A text the user typed is a sequence of characters, so that trim() is    *)
(* computed; the catalog's fixed strings are strings.                      *)
(***************************************************************************)
MaxTextLen == 3

\* const SCENARIOS: Record<string, ScenarioConfig>
SCENARIOS ==
  "restaurant" :>
     [background |-> "linear-gradient(135deg, #8B4513 0%, #D2691E 50%, #CD853F 100%)",
      situation |-> "You're at an upscale restaurant",
      userRole |-> "Customer",
      characterRole |-> "Restaurant Staff",
      objective |-> "Have a natural dining experience",
      expressions |-> <<>>] @@
  "airport" :>
     [background |-> "linear-gradient(135deg, #87CEEB 0%, #4682B4 50%, #2F4F4F 100%)",
      situation |-> "You're checking in for an international business class flight",
      userRole |-> "Business Traveler",
      characterRole |-> "Flight Attendant",
      objective |-> "Complete check-in and receive premium service guidance",
      expressions |-> <<"Welcome aboard, may I see your boarding pass?", "Would you like champagne or orange juice?", "Our meal service begins shortly", "Please let me know if you need anything">>] @@
  "coffee_shop" :>
     [background |-> "linear-gradient(135deg, #8B4513 0%, #D2691E 50%, #654321 100%)",
      situation |-> "You're at a trendy local coffee shop meeting a friend",
      userRole |-> "Customer",
      characterRole |-> "Friendly Barista",
      objective |-> "Order specialty coffee and engage in casual conversation",
      expressions |-> <<"Hey there! What can I craft for you today?", "That's our signature blend", "Would you like to try our new seasonal latte?", "Are you meeting someone special today?">>] @@
  "business_meeting" :>
     [background |-> "linear-gradient(135deg, #2F4F4F 0%, #708090 50%, #B0C4DE 100%)",
      situation |-> "You're in a corporate meeting discussing a new project",
      userRole |-> "Project Manager",
      characterRole |-> "Senior Executive",
      objective |-> "Present ideas professionally and negotiate terms",
      expressions |-> <<"Thank you for joining today's meeting", "What's your take on the market analysis?", "I'd like to propose an alternative approach", "When can we expect the deliverables?">>] @@
  "hotel" :>
     [background |-> "linear-gradient(135deg, #DAA520 0%, #B8860B 50%, #8B7355 100%)",
      situation |-> "You're checking into a luxury hotel",
      userRole |-> "Hotel Guest",
      characterRole |-> "Concierge",
      objective |-> "Get personalized recommendations and luxury service",
      expressions |-> <<"Welcome to our hotel, how was your journey?", "I'd be happy to arrange restaurant reservations", "Our spa services are highly recommended", "Is there anything special we can arrange for your stay?">>] @@
  "cafeteria" :>
     [background |-> "linear-gradient(135deg, #87CEEB 0%, #98FB98 50%, #F0E68C 100%)",
      situation |-> "You're in the school cafeteria ordering lunch",
      userRole |-> "Student",
      characterRole |-> "Cafeteria Staff",
      objective |-> "Order lunch and practice casual conversation",
      expressions |-> <<"What would you like for lunch today?", "Would you like fries with that?", "Here's your meal, enjoy!", "Have a great day!">>] @@
  "club" :>
     [background |-> "linear-gradient(135deg, #FFB6C1 0%, #98FB98 50%, #87CEEB 100%)",
      situation |-> "You're joining a school club activity",
      userRole |-> "New Member",
      characterRole |-> "Club Leader",
      objective |-> "Introduce yourself and learn about club activities",
      expressions |-> <<"Welcome to our club!", "What are you interested in?", "We meet every Tuesday", "Looking forward to working with you!">>]

\* scenario.presetKey: not set, empty, a key of SCENARIOS, or a key of
\* SCENARIO_PRESETS that SCENARIOS does not have
PresetKeys ==
  {NoValue, Stored("")} \cup {Stored(k) : k \in DOMAIN SCENARIOS}
    \cup {Stored("homework"), Stored("travel")}

Chars == {" ", "a"}

RECURSIVE TextsOfLen(_)
TextsOfLen(n) ==
  IF n = 0 THEN {<<>>}
  ELSE {Append(t, c) : t \in TextsOfLen(n - 1), c \in Chars}

\* scenario.freeText: not set, or what was typed
FreeTexts == {NoValue} \cup {Stored(t) : t \in UNION {TextsOfLen(n) : n \in 0..MaxTextLen}}

ScenarioInputs == [presetKey : PresetKeys, freeText : FreeTexts]

RECURSIVE trimStart(_)
trimStart(t) == IF t # <<>> /\ Head(t) = " " THEN trimStart(Tail(t)) ELSE t

RECURSIVE trimEnd(_)
trimEnd(t) ==
  IF t # <<>> /\ t[Len(t)] = " " THEN trimEnd(SubSeq(t, 1, Len(t) - 1)) ELSE t

\* String.prototype.trim
trim(t) == trimEnd(trimStart(t))

\* scenario.presetKey && SCENARIOS[scenario.presetKey]
PresetFound(scenario) ==
  /\ scenario.presetKey # NoValue
  /\ scenario.presetKey[1] # ""
  /\ scenario.presetKey[1] \in DOMAIN SCENARIOS

\* scenario.freeText?.trim()
FreeTextGiven(scenario) ==
  /\ scenario.freeText # NoValue
  /\ trim(scenario.freeText[1]) # <<>>

CustomScenario(scenario) ==
  [background |-> "linear-gradient(135deg, #4F46E5 0%, #7C3AED 50%, #EC4899 100%)",
   situation |-> trim(scenario.freeText[1]),
   userRole |-> "User",
   characterRole |-> "AI Tutor",
   objective |-> "Practice Japanese conversation in this custom scenario",
   expressions |-> <<>>]

\* the fallback's texts are Korean in the source; they are given here in English
FallbackScenario ==
  [background |-> "linear-gradient(135deg, #6B7280 0%, #9CA3AF 50%, #D1D5DB 100%)",
   situation |-> "General Japanese conversation practice",
   userRole |-> "Learner",
   characterRole |-> "Japanese tutor",
   objective |-> "Natural Japanese conversation practice",
   expressions |-> <<>>]

\* initializeScene with its first two branches swapped: a typed text wins over
\* a preset
scenarioConfigTextFirst(scenario) ==
  IF FreeTextGiven(scenario) THEN CustomScenario(scenario)
  ELSE IF PresetFound(scenario) THEN SCENARIOS[scenario.presetKey[1]]
  ELSE FallbackScenario

\* initializeScene, the scenarioConfig it computes
scenarioConfig(scenario) ==
  IF PresetFound(scenario) THEN SCENARIOS[scenario.presetKey[1]]
  ELSE IF FreeTextGiven(scenario) THEN CustomScenario(scenario)
  ELSE FallbackScenario

ResolveScenario ==
  /\ result = NoValue
  /\ result' = Stored(scenarioConfig(call))
  /\ UNCHANGED <<call, serverVars, sceneVars>>

ResolveNext == ResolveScenario

(***************************************************************************)
(* Voice selection (getOpenAIVoiceForCharacter, services/openai-tts, and   *)
(* getVoiceForCharacter of the drama scene).                               *)
(***************************************************************************)
RoleKeys ==
  {"Professional Server", "Flight Attendant", "Friendly Barista",
   "Senior Executive", "Concierge", "Check-in Staff"}

Genders == {"female", "male", "Female", "neutral"}

Styles == {"cheerful", "friendly", "calm", "strict", "professional", "Strict", "shy"}

Roles == RoleKeys \cup {"", "Tour Guide"}

\* String.prototype.toLowerCase on the strings above
toLowerCase(str) ==
  CASE str = "Female" -> "female"
    [] str = "Strict" -> "strict"
    [] OTHER -> str

\* const roleVoices, built from the gender of the call
roleVoices(gender) ==
  [role \in RoleKeys |->
     IF role = "Friendly Barista"
     THEN (IF gender = "female" THEN "alloy" ELSE "fable")
     ELSE (IF gender = "female" THEN "nova" ELSE "onyx")]

\* getOpenAIVoiceForCharacter with the role looked up last
getOpenAIVoiceRoleLast(style, gender, role) ==
  IF toLowerCase(gender) = "female" /\ toLowerCase(style) \in {"cheerful", "friendly"}
  THEN "shimmer"
  ELSE IF toLowerCase(gender) = "male" /\ toLowerCase(style) \in {"cheerful", "friendly"}
  THEN "echo"
  ELSE IF role # "" /\ role \in DOMAIN roleVoices(gender) THEN roleVoices(gender)[role]
  ELSE "nova"

getOpenAIVoiceForCharacter(style, gender, role) ==
  IF role # "" /\ role \in DOMAIN roleVoices(gender) THEN roleVoices(gender)[role]
  ELSE IF toLowerCase(gender) = "female"
  THEN CASE toLowerCase(style) \in {"professional", "strict"} -> "nova"
         [] toLowerCase(style) \in {"cheerful", "friendly"} -> "shimmer"
         [] toLowerCase(style) = "calm" -> "alloy"
         [] OTHER -> "nova"
  ELSE IF toLowerCase(gender) = "male"
  THEN CASE toLowerCase(style) \in {"professional", "strict"} -> "onyx"
         [] toLowerCase(style) \in {"cheerful", "friendly"} -> "echo"
         [] toLowerCase(style) = "calm" -> "fable"
         [] OTHER -> "onyx"
  ELSE "nova"

\* getVoiceForCharacter of the drama scene
getVoiceForCharacter(gender, style) ==
  IF gender = "female"
  THEN IF style = "cheerful" THEN "shimmer"
       ELSE IF style = "calm" THEN "alloy"
       ELSE IF style = "strict" THEN "nova"
       ELSE "alloy"
  ELSE IF style = "cheerful" THEN "echo"
       ELSE IF style = "calm" THEN "fable"
       ELSE IF style = "strict" THEN "onyx"
       ELSE "fable"

\* a call of one of the two functions; the scene's function takes no role
VoiceInputs ==
  [fn : {"getOpenAIVoiceForCharacter"}, style : Styles, gender : Genders, role : Roles]
    \cup [fn : {"getVoiceForCharacter"}, style : Styles, gender : Genders, role : {""}]

SelectVoice ==
  /\ result = NoValue
  /\ result' = Stored(IF call.fn = "getOpenAIVoiceForCharacter"
                      THEN getOpenAIVoiceForCharacter(call.style, call.gender, call.role)
                      ELSE getVoiceForCharacter(call.gender, call.style))
  /\ UNCHANGED <<call, serverVars, sceneVars>>

VoiceNext == SelectVoice

FunInit == call = NoValue /\ result = NoValue

Init == ServerInit /\ SceneInit /\ FunInit

\* nothing runs but the function that is called
Quiet ==
  /\ ServerInit
  /\ SceneInit
  /\ users = [id \in UserIds |-> UserRow(FALSE, "free", NoValue, NoValue)]
  /\ result = NoValue

ResolveStart == Quiet /\ call \in ScenarioInputs

ResolveSpec == ResolveStart /\ [][ResolveNext]_vars

VoiceStart == Quiet /\ call \in VoiceInputs

VoiceSpec == VoiceStart /\ [][VoiceNext]_vars

\* the server's handlers, with no scene running
ServerSpec == Init /\ [][ServerNext]_vars

\* the server's handlers for a free-tier account, fresh or one use short of
\* its limits
FreeTierStart ==
  /\ Init
  /\ users \in { [id \in UserIds |-> UserRow(FALSE, "free", NoValue, NoValue)],
                 [id \in UserIds |-> UserRow(FALSE, "free", Stored(limits["free"] - 1),
                                             Stored(imageLimits["free"] - 1))] }

FreeTierSpec == FreeTierStart /\ [][ServerNext]_vars

\* the saved-character and subscription handlers next to the metered ones,
\* for a fresh free account and a table that may hold a character
AccountStart ==
  /\ users = [id \in UserIds |-> UserRow(FALSE, "free", NoValue, NoValue)]
  /\ HandlersIdle
  /\ characters \in InitCharacters
  /\ SceneInit
  /\ FunInit

AccountSpec == AccountStart /\ [][AccountNext]_vars

\* the scene of one signed-in user (a fresh free account), with the answers
\* of its requests as inputs
SceneStart ==
  /\ Init
  /\ users = [id \in UserIds |-> UserRow(FALSE, "free", NoValue, NoValue)]

SceneSpec == SceneStart /\ [][SceneNext]_vars

\* a request startScenario awaits is answered or fails
StartSettles ==
  \/ \E line \in Lines : StartDialogueOk(line)
  \/ StartDialogueFail
  \/ \E line \in Lines : StartTtsOk(line)
  \/ \E line \in Lines : StartTtsFail(line)
  \/ \E line \in Lines : StartTranslated(line)

\* getUserMedia resolves or rejects
MicSettles == MicGranted \/ MicGrantedThenThrows \/ MicDenied

\* the stop event of a stopped recorder is delivered
RecorderStops == \E size \in AudioSizes : processUserResponse(size)

\* a request onloadend awaits is answered or fails
ProcSettles ==
  \/ SpeechFail
  \/ SpeechEmpty
  \/ SpeechOk
  \/ \E response \in ContextualResponses : ContextReturned(response)
  \/ \E reply \in Replies : TtsOk(reply)
  \/ \E reply \in Replies : TtsFail(reply)
  \/ \E reply \in Replies : Translated(reply)

\* Every request settles, every event is delivered, and the user ends a
\* capture that runs and restarts a scene that ended.
SceneFairness ==
  /\ WF_vars(Mount)
  /\ WF_vars(StartSettles)
  /\ WF_vars(MicSettles)
  /\ WF_vars(RecorderStops)
  /\ WF_vars(ProcSettles)
  /\ WF_vars(stopListening)
  /\ WF_vars(resetScene)

SceneLiveSpec == SceneStart /\ [][SceneNext]_vars /\ SceneFairness

\* the scene with the hands-free toggle
HandsFreeNext ==
  \/ SceneNext
  \/ ToggleAutoListen
  \/ RelistenFires

HandsFreeSpec == SceneStart /\ [][HandsFreeNext]_vars

(***************************************************************************)
(* Usage metering: the claims.                                             *)
(***************************************************************************)
UsageColumns == {"conversationCount", "imageGenerationCount", "ttsUsageCount"}

\* the tier's limit for the metric an endpoint meters; the code has no table
\* for tts, so the table of the check that guards POST /api/tts stands for it
QuotaLimit(tier, ep) ==
  IF ep = "generate-image" THEN imageLimits[tier] ELSE limits[tier]

\* a step that is an admin reset
IsReset == \E u \in UserIds : resetUserUsage(u)

NonDecreasing ==
  \A u \in DOMAIN users, c \in UsageColumns :
    ParseCount(users'[u][c]) >= ParseCount(users[u][c])

\* C1: the quota check that guards a metered endpoint allows the request
\* exactly when the user is the admin identity or the user's counter for the
\* endpoint's own metric is below the tier's limit for it.
C1_CheckComparesOwnCounter ==
  [][\A s \in Slots, u \in UserIds, ep \in MeteredEndpoints :
       CheckLimit(s, u, ep) =>
         (req'[s].canUse <=>
            (users[u].admin
               \/ ParseCount(users[u][UsageColumn(ep)])
                    < QuotaLimit(users[u].subscriptionTier, ep)))]_vars

\* C1, the part the code keeps: the same statement for the endpoints that
\* meter conversations and images.
C1_ConversationAndImageChecks ==
  [][\A s \in Slots, u \in UserIds, ep \in MeteredEndpoints \ {"tts"} :
       CheckLimit(s, u, ep) =>
         (req'[s].canUse <=>
            (users[u].admin
               \/ ParseCount(users[u][UsageColumn(ep)])
                    < QuotaLimit(users[u].subscriptionTier, ep)))]_vars

\* C5, first part: a step raises a counter only as the write of a request
\* whose provider call has returned OK, and only that request's own column.
C5_IncrementOnlyAfterSuccess ==
  [][\A u \in DOMAIN users, c \in UsageColumns :
       ParseCount(users'[u][c]) > ParseCount(users[u][c]) =>
         \E s \in Slots : /\ req[s].pc = "write"
                          /\ req[s].provider = "ok"
                          /\ req[s].user = u
                          /\ UsageColumn(req[s].endpoint) = c
                          /\ req'[s].status = 200]_vars

\* C5, second part: a failed provider call ends the request with 500 and
\* leaves the table as it was.
C5_FailureLeavesCounters ==
  [][\A s \in Slots :
       (req[s].pc = "provider" /\ req'[s].provider = "failed") =>
         (req'[s].pc = "done" /\ req'[s].status = 500 /\ users' = users)]_vars

\* C5: counters rise only after the request's provider call succeeded, a
\* failed call changes nothing, and no step other than a reset lowers a counter.
C5_IncrementAfterSuccessNeverDecrement ==
  [][/\ \A u \in DOMAIN users, c \in UsageColumns :
          ParseCount(users'[u][c]) > ParseCount(users[u][c]) =>
            \E s \in Slots : /\ req[s].pc = "write"
                             /\ req[s].provider = "ok"
                             /\ req[s].user = u
                             /\ UsageColumn(req[s].endpoint) = c
     /\ \A s \in Slots :
          (req[s].pc = "provider" /\ req'[s].provider = "failed") =>
            (req'[s].status = 500 /\ users' = users)
     /\ (IsReset \/ NonDecreasing)]_vars

\* C6: between two resets no usage counter ever goes down, whatever the
\* interleaving of the requests.
C6_CountersMonotoneBetweenResets == [][IsReset \/ NonDecreasing]_vars

\* C7: a quota check made 30 days or more after lastUsageReset first zeroes the
\* three counters and sets lastUsageReset to now, so it reads a count of 0.
C7_CheckAppliesMonthlyReset ==
  [][\A s \in Slots, u \in UserIds, ep \in MeteredEndpoints :
       (CheckLimit(s, u, ep) /\ DaysSinceReset(users[u], now) >= ResetDays) =>
         /\ req'[s].currentUsage = 0
         /\ \A c \in UsageColumns : ParseCount(users'[u][c]) = 0
         /\ users'[u].lastUsageReset = Stored(now)]_vars

\* C8: a metered request the quota check denies is answered 429 with the
\* currentUsage and limit the check computed; it sends nothing to the provider
\* and leaves the table unchanged.
C8_DeniedRequestHasNoEffect ==
  [][\A s \in Slots, u \in UserIds, ep \in MeteredEndpoints :
       (started' # started /\ ~EndpointCheck(ep, u).canUse /\ CheckLimit(s, u, ep)) =>
         /\ req'[s].pc = "done"
         /\ req'[s].status = 429
         /\ req'[s].provider = "none"
         /\ req'[s].currentUsage = ParseCount(users[u][IF ep = "generate-image"
                                                        THEN "imageGenerationCount"
                                                        ELSE "conversationCount"])
         /\ req'[s].limit = QuotaLimit(users[u].subscriptionTier, ep)
         /\ users' = users]_vars

\* C8, as a state: whoever was answered 429 never reached the provider.
C8_DeniedNeverCalledProvider ==
  \A s \in Slots : req[s].status = 429 => (req[s].pc = "done" /\ req[s].provider = "none")

\* C8 witness: a request has been denied once the user reached the limit.
C8_Witness ==
  \E s \in Slots : req[s].status = 429 /\ req[s].currentUsage >= req[s].limit
                     /\ req[s].limit > 0

(***************************************************************************)
(* The drama scene: the claims.                                            *)
(***************************************************************************)
RECURSIVE SumOver(_, _)
SumOver(bag, keys) ==
  IF keys = {} THEN 0
  ELSE LET x == CHOOSE k \in keys : TRUE
       IN  bag[x] + SumOver(bag, keys \ {x})

\* calls in flight
Total(bag) == SumOver(bag, DOMAIN bag)

\* turns whose evaluation was accepted and whose character turn is still to come
AcceptedStates == {x \in ProcStates : x[1] \in {"tts", "translate"}}

Speaker(i) == dialogueHistory[i].speaker

\* C2: after the initial system turn the turns alternate character, user,
\* character, ...: no two neighbours have the same speaker.
C2_TurnsAlternate ==
  (Len(dialogueHistory) > 0 /\ Speaker(1) = "system") =>
    /\ Len(dialogueHistory) > 1 => Speaker(2) = "character"
    /\ \A i \in 2..(Len(dialogueHistory) - 1) : Speaker(i) # Speaker(i + 1)

\* C3: the progress stays within 0..100, never goes down from one state to
\* the next, and the end of every accepted turn raises it by exactly 15.
C3_ProgressMonotoneByFifteen ==
  [][/\ sceneProgress' \in 0..ProgressMax
     /\ sceneProgress' >= sceneProgress
     /\ SumOver(procs', AcceptedStates) < SumOver(procs, AcceptedStates)
          => sceneProgress' = sceneProgress + ProgressStep]_vars

\* C4: no two evaluation calls of the session are in flight together.
C4_NoTwoEvaluationsInFlight == procs[<<"context", "none">>] <= 1

\* C9: the step that ends a startScenario call sets the history to exactly
\* the system turn and one character turn and the progress to 10; when the
\* call ended at the opening-line or the TTS request (a failure), the
\* character turn is the fixed greeting without audio.
C9_StartSetsOpeningTurns ==
  [][Total(starts') < Total(starts) =>
       /\ Len(dialogueHistory') = 2
       /\ dialogueHistory'[1] = SystemTurn
       /\ dialogueHistory'[2].speaker = "character"
       /\ sceneProgress' = ProgressStart
       /\ (\E x \in StartStates : x[1] \in {"dialogue", "tts"} /\ starts'[x] < starts[x])
            => dialogueHistory'[2] = CharacterTurn("greeting", FALSE)]_vars

\* C9 witness: a start has ended in the fallback, nothing else has happened
C9_Witness ==
  /\ mounted
  /\ Total(starts) = 0
  /\ dialogueHistory = <<SystemTurn, CharacterTurn("greeting", FALSE)>>
  /\ sceneProgress = ProgressStart

\* C10: when the evaluation asks for a correction, that step appends no
\* turn, leaves progress and conversationEnded alone, sets awaitingRetry, ends
\* the turn's processing (no TTS request follows) and leaves isProcessing false.
C10_CorrectionHoldsTheTurn ==
  [][\A response \in ContextualResponses :
       (ContextReturned(response) /\ response.needsCorrection) =>
         /\ dialogueHistory' = dialogueHistory
         /\ sceneProgress' = sceneProgress
         /\ conversationEnded' = conversationEnded
         /\ awaitingRetry'
         /\ ~isProcessing'
         /\ procs' = Remove(procs, <<"context", "none">>)]_vars

\* C10 witness: a correction was asked for; the user turn is the last turn
\* and the capture button is back
C10_Witness ==
  /\ awaitingRetry
  /\ Total(procs) = 0
  /\ Len(dialogueHistory) = 3
  /\ Speaker(3) = "user"
  /\ CaptureAvailable

\* C11: when processUserResponse runs on a recording below the minimum size
\* it appends no turn, starts no transcription or evaluation request, leaves
\* progress, awaitingRetry and conversationEnded unchanged and ends with
\* isProcessing false.
C11_SmallRecordingIsDropped ==
  [][\A size \in AudioSizes :
       (processUserResponse(size) /\ PushChunk(audioChunks, size) < MinAudioBytes) =>
         /\ dialogueHistory' = dialogueHistory
         /\ procs' = procs
         /\ sceneProgress' = sceneProgress
         /\ awaitingRetry' = awaitingRetry
         /\ conversationEnded' = conversationEnded
         /\ ~isProcessing']_vars

\* C11 witness: the one recording of a started scene was stopped and handled,
\* it was below the minimum, and the scene is as Start left it
C11_Witness ==
  /\ captures = 1
  /\ micPending = 0
  /\ recorder = "inactive"
  /\ stopQueued = 0
  /\ audioChunks > 0
  /\ audioChunks < MinAudioBytes
  /\ Total(procs) = 0
  /\ Len(dialogueHistory) = 2
  /\ sceneProgress = ProgressStart
  /\ ~isProcessing

IsPrefix(a, b) == Len(a) <= Len(b) /\ SubSeq(b, 1, Len(a)) = a

\* C12: between resets the turn sequence only grows at its end: on every
\* step that is not a reset, the turns already there keep their positions and
\* content.
C12_TurnsAppendOnly ==
  [][resets' = resets => IsPrefix(dialogueHistory, dialogueHistory')]_vars

(***************************************************************************)
(* Usage resets and lookups: the claims.                                   *)
(***************************************************************************)
\* a step that writes a reset of u's row: the admin reset, or the reset
\* branch of POST /api/check-usage
ResetsRow(u) ==
  \/ resetUserUsage(u)
  \/ \E s \in Slots : req[s].user = u /\ CheckUsageReset(s)

\* a reset has been applied to the row (at a day after the account's first)
\* and its 30-day window is still open
WithinResetWindow(u) ==
  /\ users[u].lastUsageReset # NoValue
  /\ users[u].lastUsageReset[1] > 0
  /\ now - users[u].lastUsageReset[1] < ResetDays

\* C13: once a reset has been applied, a reset invoked again within the same
\* 30-day window changes nothing: the counters and the reset timestamp of the
\* row are the same before and after it.
C13_SecondResetIsNoOp ==
  [][\A u \in DOMAIN users :
       (WithinResetWindow(u) /\ ResetsRow(u)) => users'[u] = users[u]]_vars

\* C13, the guarded reset alone: POST /api/check-usage invoked within the
\* window answers without reaching its reset branch and writes nothing.
C13_CheckUsageWithinWindowWritesNothing ==
  [][\A s \in Slots, u \in DOMAIN users :
       (CheckUsageRead(s, u) /\ DaysSinceReset(users[u], now) < ResetDays) =>
         (req'[s].pc = "done" /\ users' = users)]_vars

\* C14: a reset zeroes the three counters in one step, and no other step
\* raises a counter by more than one: so after a reset each counter is at most
\* the number of increments completed since, whatever the interleaving.
C14_ResetAtomicWithIncrements ==
  [][\A u \in DOMAIN users :
       IF resetUserUsage(u)
       THEN \A c \in UsageColumns : users'[u][c] = Stored(0)
       ELSE \A c \in UsageColumns :
              ParseCount(users'[u][c]) <= ParseCount(users[u][c]) + 1]_vars

\* C15: the quota check fails closed: when the user's row is missing or the
\* lookup throws, the check says no, the request ends with 429 and neither the
\* provider nor the table is touched.
C15_CheckFailsClosed ==
  [][\A s \in Slots, u \in SessionIds, ep \in MeteredEndpoints :
       (started' # started
          /\ ((u \notin DOMAIN users /\ CheckLimit(s, u, ep)) \/ LookupFails(s, u, ep))) =>
         /\ ~req'[s].canUse
         /\ req'[s].pc = "done"
         /\ req'[s].status = 429
         /\ req'[s].provider = "none"
         /\ users' = users]_vars

\* C15 witness: a request was refused with the answer of a failed lookup
\* (limit 0; every tier's limit is positive)
C15_Witness ==
  \E s \in Slots : /\ req[s].pc = "done"
                   /\ req[s].status = 429
                   /\ req[s].limit = 0
                   /\ req[s].provider = "none"

(***************************************************************************)
(* Scenario resolution: the claim.                                         *)
(***************************************************************************)
KnownPreset(in) == in.presetKey # NoValue /\ in.presetKey[1] \in DOMAIN SCENARIOS

\* the text has a character that is not a space
HasText(in) ==
  in.freeText # NoValue /\ \E i \in 1..Len(in.freeText[1]) : in.freeText[1][i] # " "

\* s is t without the spaces at its two ends
IsTrimOf(s, t) ==
  /\ s # <<>>
  /\ s[1] # " "
  /\ s[Len(s)] # " "
  /\ \E i \in 1..Len(t) :
       /\ i + Len(s) - 1 <= Len(t)
       /\ SubSeq(t, i, i + Len(s) - 1) = s
       /\ \A k \in 1..Len(t) : (k < i \/ k > i + Len(s) - 1) => t[k] = " "

\* C16 as stated: a preset key of the catalog gives the catalog's entry
\* whatever the text is; otherwise a text that is not blank gives a descriptor
\* whose situation is that text, with roles User and AI Tutor and no
\* expressions; otherwise the result is the fixed fallback.
C16_ResolutionPrecedence ==
  result # NoValue =>
    LET r == result[1]
    IN  IF KnownPreset(call) THEN r = SCENARIOS[call.presetKey[1]]
        ELSE IF HasText(call)
             THEN /\ r.situation = call.freeText[1]
                  /\ r.userRole = "User"
                  /\ r.characterRole = "AI Tutor"
                  /\ r.expressions = <<>>
        ELSE r = FallbackScenario

\* C16 amended: the same, with the situation being the text without the
\* spaces at its ends.
C16_ResolutionPrecedenceTrimmed ==
  result # NoValue =>
    LET r == result[1]
    IN  IF KnownPreset(call) THEN r = SCENARIOS[call.presetKey[1]]
        ELSE IF HasText(call)
             THEN /\ IsTrimOf(r.situation, call.freeText[1])
                  /\ r.userRole = "User"
                  /\ r.characterRole = "AI Tutor"
                  /\ r.expressions = <<>>
        ELSE r = FallbackScenario

\* C16 witness: a text with spaces around it was resolved, with a preset key
\* that the catalog does not have
C16_Witness ==
  /\ result # NoValue
  /\ call.presetKey = Stored("homework")
  /\ call.freeText = Stored(<<" ", "a", " ">>)
  /\ result[1].situation = <<"a">>

(***************************************************************************)
(* Voice selection: the claim.                                             *)
(***************************************************************************)
Voices == {"alloy", "echo", "fable", "onyx", "nova", "shimmer"}

\* the rows of the style switch: professional with strict, friendly with
\* cheerful
StyleRow(style) ==
  CASE toLowerCase(style) \in {"professional", "strict"} -> "strict"
    [] toLowerCase(style) \in {"cheerful", "friendly"} -> "cheerful"
    [] OTHER -> toLowerCase(style)

\* the 2x3 table of the server's function
PairTable ==
  [female |-> [strict |-> "nova", cheerful |-> "shimmer", calm |-> "alloy"],
   male   |-> [strict |-> "onyx", cheerful |-> "echo", calm |-> "fable"]]

GenderDefault(gender) == IF toLowerCase(gender) = "male" THEN "onyx" ELSE "nova"

\* the 2x3 table of the scene's function, which reads every gender but
\* female as male
ScenePairTable ==
  [female |-> [strict |-> "nova", cheerful |-> "shimmer", calm |-> "alloy"],
   male   |-> [strict |-> "onyx", cheerful |-> "echo", calm |-> "fable"]]

SceneGender(gender) == IF gender = "female" THEN "female" ELSE "male"

SceneGenderDefault(gender) == IF gender = "female" THEN "alloy" ELSE "fable"

\* what the claim says below the role table
PairThenDefault ==
  IF call.fn = "getOpenAIVoiceForCharacter"
  THEN IF /\ toLowerCase(call.gender) \in DOMAIN PairTable
          /\ StyleRow(call.style) \in DOMAIN PairTable.female
       THEN result[1] = PairTable[toLowerCase(call.gender)][StyleRow(call.style)]
       ELSE result[1] = GenderDefault(call.gender)
  ELSE IF call.style \in DOMAIN ScenePairTable.female
       THEN result[1] = ScenePairTable[SceneGender(call.gender)][call.style]
       ELSE result[1] = SceneGenderDefault(call.gender)

\* C17 as stated: every call returns a voice; a role of the role table
\* decides the voice alone, the same voice for every gender and style;
\* otherwise the (gender, style) pair of the 2x3 table decides; otherwise the
\* gender's default.
C17_RoleVoiceSameForEveryGender ==
  result # NoValue =>
    /\ result[1] \in Voices
    /\ IF call.role \in RoleKeys
       THEN \A g \in Genders, st \in Styles :
              getOpenAIVoiceForCharacter(st, g, call.role) = result[1]
       ELSE PairThenDefault

\* C17 amended: a role of the role table decides together with the gender:
\* one voice of the role when the gender is exactly female, the other voice
\* of the role for every other gender, the same for every style.
C17_RoleVoicePerGender ==
  result # NoValue =>
    /\ result[1] \in Voices
    /\ IF call.role \in RoleKeys
       THEN /\ result[1] = IF call.role = "Friendly Barista"
                           THEN (IF call.gender = "female" THEN "alloy" ELSE "fable")
                           ELSE (IF call.gender = "female" THEN "nova" ELSE "onyx")
            /\ \A st \in Styles :
                 getOpenAIVoiceForCharacter(st, call.gender, call.role) = result[1]
       ELSE PairThenDefault

\* C17 witness: the role decided against the pair (male, cheerful is echo)
C17_Witness ==
  /\ result = Stored("fable")
  /\ call.fn = "getOpenAIVoiceForCharacter"
  /\ call.role = "Friendly Barista"
  /\ call.gender = "male"
  /\ call.style = "cheerful"

(***************************************************************************)
(* Authentication, saved characters, provider failures: the claims.        *)
(***************************************************************************)
\* C18: an unauthenticated request to a protected endpoint is answered 401
\* in the handler's first step: the answer comes from a slot that was not
\* running, with no provider call, and the step changes no user row, no
\* character and no other request; no running handler ever answers 401.
C18_UnauthenticatedAnswers401First ==
  [][/\ started' # started =>
          \A s \in Slots, ep \in ProtectedEndpoints :
            Unauthorized(s, ep) =>
              /\ req'[s].status = 401
              /\ req'[s].pc = "done"
              /\ req'[s].provider = "none"
              /\ users' = users
              /\ characters' = characters
              /\ \A t \in Slots \ {s} : req'[t] = req[t]
     /\ \A s \in Slots :
          req'[s].status = 401 =>
            /\ req'[s].provider = "none"
            /\ req[s].status = 401 \/ (Free(s) /\ users' = users /\ characters' = characters)
    ]_vars

\* C18 witness: a request was answered 401 while a character is stored
C18_Witness ==
  /\ \E s \in Slots : req[s].status = 401 /\ req[s].pc = "done"
  /\ \E c \in DOMAIN characters : characters[c] # NoValue

\* the character is stored and belongs to another account than u
OwnedByAnother(c, u) ==
  c \in DOMAIN characters /\ characters[c] # NoValue /\ characters[c][1].userId # u

\* C19: a GET or DELETE of a stored character by an account that does not
\* own it answers 404 at once and leaves the table as it is; the characters
\* an answer carries belong to the account that asked; and a stored row is
\* changed or deleted only in a step of a request of its owner that answers
\* 200.
C19_OnlyOwnerReadsAndDeletes ==
  [][/\ started' # started =>
          \A s \in Slots, u \in SessionIds, c \in CharacterIds :
            (OwnedByAnother(c, u) /\ (GetCharacter(s, u, c) \/ DeleteCharacter(s, u, c))) =>
              /\ req'[s].status = 404
              /\ req'[s].pc = "done"
              /\ characters' = characters
     /\ \A s \in Slots :
          req'[s].pc = "done" =>
            \A c \in req'[s].body :
              /\ c \in DOMAIN characters'
              /\ characters'[c] = NoValue \/ characters'[c][1].userId = req'[s].user
     /\ \A c \in DOMAIN characters :
          (characters[c] # NoValue /\ characters'[c] # characters[c]) =>
            \E s \in Slots :
              /\ req'[s].user = characters[c][1].userId
              /\ req'[s].pc = "done"
              /\ req'[s].status = 200
    ]_vars

\* C19 witness: a request for a stored character of another account was
\* answered 404, and the character was used by its owner
C19_Witness ==
  /\ \E s \in Slots :
       /\ req[s].status = 404
       /\ req[s].arg \in CharacterIds
       /\ OwnedByAnother(req[s].arg, req[s].user)
  /\ \E c \in DOMAIN characters : characters[c] # NoValue /\ characters[c][1].lastUsedAt # NoValue

\* C20: when the provider a request called fails (a response that is not OK
\* or a thrown error), the request is answered 500; and a provider is called
\* only in the first step of a request, so at most once per request.
C20_ProviderFailureAnswers500 ==
  [][\A s \in Slots :
       /\ (req[s].provider = "called" /\ req'[s].provider = "failed") =>
            req'[s].status = 500
       /\ (req'[s].provider = "called" /\ req'[s] # req[s]) => Free(s)
    ]_vars

\* the same for the failures of the AI provider alone
C20_AiFailureAnswers500 ==
  [][\A s \in Slots :
       (req[s].pc = "provider" /\ req'[s].provider = "failed") => req'[s].status = 500
    ]_vars

\* the same for the payment provider when the request to it throws
C20_PaddleThrowAnswers500 ==
  [][\A s \in Slots : PaddleThrows(s) => req'[s].status = 500]_vars

(***************************************************************************)
(* The drama scene, failures and resets: the claims.                       *)
(***************************************************************************)
\* evaluations past the correction check that carry the reply r
Accepted(bag, r) == bag[<<"tts", r>>] + bag[<<"translate", r>>]

\* C21: when an evaluation that needs no correction ends, with its TTS or
\* translation request answered or failed, one character turn with the reply
\* is appended, awaitingRetry is cleared and the progress is raised.
C21_AcceptedEvaluationAppendsTurn ==
  [][\A r \in Replies :
       Accepted(procs', r) < Accepted(procs, r) =>
         /\ Len(dialogueHistory') = Len(dialogueHistory) + 1
         /\ dialogueHistory'[Len(dialogueHistory')].speaker = "character"
         /\ dialogueHistory'[Len(dialogueHistory')].text = r
         /\ awaitingRetry' = FALSE
         /\ sceneProgress' = NextProgress(sceneProgress)
    ]_vars

\* the same when the translation request is the one that fails or answers
C21_TranslationNeverDropsTheTurn ==
  [][\A r \in Replies :
       procs'[<<"translate", r>>] < procs[<<"translate", r>>] =>
         /\ dialogueHistory' = Append(dialogueHistory, CharacterTurn(r, TRUE))
         /\ awaitingRetry' = FALSE
         /\ sceneProgress' = NextProgress(sceneProgress)
    ]_vars

\* the last startScenario call in flight completes in this step, after a reset
ResetCompletes == resets > 0 /\ Total(starts) > 0 /\ Total(starts') = 0

\* C22: when the Start that Reset ran completes, the turns are the system
\* turn and the opening character turn, the progress is 10, conversationEnded
\* and awaitingRetry are false and the capture button is rendered.
C22_ResetRestoresStartState ==
  [][ResetCompletes =>
       /\ Len(dialogueHistory') = 2
       /\ dialogueHistory'[1] = SystemTurn
       /\ dialogueHistory'[2].speaker = "character"
       /\ sceneProgress' = ProgressStart
       /\ conversationEnded' = FALSE
       /\ awaitingRetry' = FALSE
       /\ (isListening' \/ isProcessing') = FALSE
    ]_vars

\* the part of it that resetScene and startScenario do establish
C22_ResetRestoresTurnsAndProgress ==
  [][ResetCompletes =>
       /\ Len(dialogueHistory') = 2
       /\ dialogueHistory'[1] = SystemTurn
       /\ dialogueHistory'[2].speaker = "character"
       /\ sceneProgress' = ProgressStart
    ]_vars

\* C24: whenever the scene is not listening, every stream the microphone
\* gave (with its audio context) was released.
C24_MicReleasedWhenNotListening == ~isListening => micOpen = 0

\* what stopListening does release: the stream streamRef refers to
C24_StopReleasesCurrentStream ==
  [][(isListening /\ ~isListening') => (refLive' = FALSE /\ micOpen' <= micOpen)]_vars

\* C25: the automatic re-listen starts a capture only when the scene has not
\* ended, the last turn is a character turn and no capture (requested or
\* running) or processing is in flight; and a pending re-listen is dropped
\* when the toggle goes off or a capture is requested first.
C25_RelistenOnlyWhenIdle ==
  [][/\ RelistenFires =>
          /\ autoListenMode
          /\ ~conversationEnded
          /\ Len(dialogueHistory) > 0
          /\ dialogueHistory[Len(dialogueHistory)].speaker = "character"
          /\ ~isListening
          /\ ~isProcessing
          /\ micPending = 0
     /\ (autoListenMode /\ ~autoListenMode') => ~relisten'
     /\ ClickAction => ~relisten'
    ]_vars

\* what the effect's own test and cleanup do guarantee
C25_RelistenChecksItsDependencies ==
  [][/\ RelistenFires =>
          /\ autoListenMode
          /\ Len(dialogueHistory) > 0
          /\ dialogueHistory[Len(dialogueHistory)].speaker = "character"
          /\ ~isListening
          /\ ~isProcessing
     /\ (autoListenMode /\ ~autoListenMode') => ~relisten'
    ]_vars

\* C23: a scene that has not ended comes back to a state where the capture
\* button is offered (or it ends), whatever fails; and after a Reset the
\* scene comes back to a state where the capture button is offered.
C23_NoFatalState ==
  /\ (currentScenario # Null /\ ~conversationEnded) ~> (CaptureAvailable \/ conversationEnded)
  /\ (resets > 0) ~> CaptureAvailable

\* the first half: no failure of a request leaves a scene that has not ended
\* without the capture button
C23_FailuresLeadBackToCapture ==
  (currentScenario # Null /\ ~conversationEnded) ~> (CaptureAvailable \/ conversationEnded)

\* startScenario calls waiting for their opening-line request
OpeningRequests(bag) == bag[<<"dialogue", "none">>]

\* C29: one scene entry and one Reset each run Start once: the step sends
\* exactly one opening-line request.
C29_ResetRunsStartOnce ==
  [][(mounted' # mounted \/ resets' # resets) =>
       OpeningRequests(starts') = OpeningRequests(starts) + 1]_vars

\* the scene entry alone does
C29_EntryRunsStartOnce ==
  [][mounted' # mounted => OpeningRequests(starts') = OpeningRequests(starts) + 1]_vars

\* endpoints whose quota check reads the counter their increment writes
OwnCounterEndpoints == {"generate-image", "generate-dialogue", "conversation-response"}

\* requests of user u whose provider call succeeded and whose increment of
\* column col is still to be written
SucceededUncounted(u, col) ==
  {s \in Slots : /\ req[s].pc \in {"increment", "write"}
                 /\ req[s].user = u
                 /\ req[s].endpoint \in OwnCounterEndpoints
                 /\ UsageColumn(req[s].endpoint) = col}

\* the tier limit of a counter column
ColumnLimit(col, tier) ==
  IF col = "imageGenerationCount" THEN ImageLimit(tier) ELSE ConversationLimit(tier)

\* C26: for a non-admin user and each metric, the operations executed
\* successfully since the last reset (those counted and those whose provider
\* call succeeded and that are about to be counted) never exceed the tier
\* limit, whatever the interleaving of the user's requests.
C26_SuccessesWithinLimit ==
  \A u \in UserIds : \A col \in {"conversationCount", "imageGenerationCount"} :
    ~users[u].admin =>
      ParseCount(users[u][col]) + Cardinality(SucceededUncounted(u, col))
        <= ColumnLimit(col, users[u].subscriptionTier)

(***************************************************************************)
(* Subscriptions and the usage report: the claims.                         *)
(***************************************************************************)
\* the stored subscription of a row
Subscription(row) == <<row.subscriptionTier, row.subscriptionStatus>>

SubscriptionChanges == \E u \in UserIds : Subscription(users'[u]) # Subscription(users[u])

\* C27: a step of POST /api/subscribe changes a stored subscription only
\* after Paddle answered OK for the requested tier, a tier that has a price,
\* and then stores that tier; a request that is refused (another provider,
\* no API key, a tier without a price) or whose transaction is rejected or
\* throws leaves the stored subscriptions as they were.
C27_SubscribeWritesOnlyAfterPayment ==
  [][\A s \in Slots :
       /\ (req[s].endpoint = "subscribe" /\ req'[s] # req[s] /\ SubscriptionChanges) =>
            /\ req[s].provider = "ok"
            /\ getPaddlePriceId(req[s].arg) # NoValue
            /\ Subscription(users'[req[s].user]) = <<req[s].arg, Stored("active")>>
       /\ (Free(s) /\ req'[s] # req[s] /\ req'[s].status \in {400, 500}) => users' = users
       /\ (req[s].pc = "paddle" /\ req'[s].provider = "failed") => users' = users
    ]_vars

\* a subscription was stored after a successful payment, and a later request
\* of the now subscribed user was turned down
C27_Witness ==
  \E u \in UserIds :
    /\ Subscription(users[u]) = <<"pro", Stored("active")>>
    /\ \E s \in Slots : req[s].pc = "done" /\ req[s].status \in {400, 500}

\* C28: what POST /api/check-usage reports for a user (canUse, currentUsage,
\* limit) is what checkUsageLimit, the check of the conversation-metered
\* endpoints, returns for the same user at that moment.
C28_ReportMatchesEnforcement ==
  [][\A s \in Slots, u \in UserIds :
       CheckUsageRead(s, u) =>
         LET check == checkUsageLimit(u)
         IN  /\ req'[s].canUse = check.canUse
             /\ req'[s].currentUsage = check.currentUsage
             /\ req'[s].limit = check.limit
    ]_vars

\* the two agree on the limit of an ordinary free or starter account
C28_SameLimitForFreeAndStarter ==
  [][\A s \in Slots, u \in UserIds :
       (/\ CheckUsageRead(s, u)
        /\ ~users[u].admin
        /\ users[u].subscriptionTier \in {"free", "starter"}) =>
         req'[s].limit = checkUsageLimit(u).limit
    ]_vars

\* C30: once POST /api/cancel-subscription has answered success, the stored
\* subscription of its user is tier free, status cancelled.
C30_CancelAnswersAfterWrite ==
  \A s \in Slots :
    (/\ req[s].endpoint = "cancel-subscription"
     /\ req[s].status = 200
     /\ req[s].user \in UserIds) =>
      Subscription(users[req[s].user]) = <<"free", Stored("cancelled")>>

\* C30, second half: a cancel request whose update fails is answered 500
C30_FailedCancelAnswers500 ==
  [][\A s \in Slots : CancelWriteFails(s) => req'[s].status = 500]_vars

\* the update, when it succeeds, stores tier free and status cancelled
C30_CancelStoresFreeCancelled ==
  [][\A s \in Slots :
       (CancelWrite(s) /\ req[s].user \in UserIds) =>
         Subscription(users'[req[s].user]) = <<"free", Stored("cancelled")>>
    ]_vars

====
